---- MODULE Spec2Model ----
(***************************************************************************)
(* Virtualized grid (tofucode-dev/virtualization): the Virtualizer         *)
(* component and the hooks it is composed of (useVirtualization,           *)
(* useVirtualizationDimensions, useVisibleRange, useRenderCells) together  *)
(* with the layout utilities of virtualization-utils.                      *)
(*                                                                         *)
(* Sizes, counts and scroll offsets are integers.  The results of the      *)
(* JavaScript divisions by an average size are kept exactly: an average is *)
(* a fraction num/den, and a division by a zero average yields the         *)
(* IEEE-754 values NaN, Infinity or -Infinity, which the range arithmetic  *)
(* (Math.floor, Math.max, Math.min, +, -) propagates as JavaScript does.   *)
(***************************************************************************)
EXTENDS Integers, Sequences, FiniteSets, TLC

\* ------------------------------------------------------------------------
\* Bounds of the model
\* ------------------------------------------------------------------------
MaxRows == 3
MaxCols == 2
MaxOverscan == 1
MaxScroll == 4
MaxLen == 3
MaxRenders == 6

\* ------------------------------------------------------------------------
\* JavaScript numbers: a finite integer, NaN, Infinity or -Infinity
\* ------------------------------------------------------------------------
Fin(n) == [k |-> "fin", v |-> n]
NaN == [k |-> "nan", v |-> 0]
PosInf == [k |-> "inf", v |-> 1]
NegInf == [k |-> "inf", v |-> -1]

IsFin(a) == a.k = "fin"

\* Math.floor(x / avg) for a finite x and an average avg = num/den >= 0
FloorDiv(x, avg) ==
  IF avg.num = 0
    THEN IF x = 0 THEN NaN ELSE IF x > 0 THEN PosInf ELSE NegInf
    ELSE Fin((x * avg.den) \div avg.num)

\* a + n for a finite n
JsAdd(a, n) == IF IsFin(a) THEN Fin(a.v + n) ELSE a

\* Math.max(n, a) for a finite n
JsMax(n, a) ==
  IF a.k = "nan" THEN NaN
  ELSE IF a.k = "inf" THEN (IF a.v > 0 THEN PosInf ELSE Fin(n))
  ELSE Fin(IF a.v > n THEN a.v ELSE n)

\* Math.min(n, a) for a finite n
JsMin(n, a) ==
  IF a.k = "nan" THEN NaN
  ELSE IF a.k = "inf" THEN (IF a.v > 0 THEN Fin(n) ELSE NegInf)
  ELSE Fin(IF a.v < n THEN a.v ELSE n)

\* a * n for a finite n >= 0
JsMul(a, n) ==
  IF a.k = "nan" THEN NaN
  ELSE IF a.k = "inf" THEN (IF n = 0 THEN NaN ELSE a)
  ELSE Fin(a.v * n)

\* a <= b (false as soon as one side is NaN)
JsLe(a, b) ==
  IF a.k = "nan" \/ b.k = "nan" THEN FALSE
  ELSE IF a.k = "inf" THEN (a.v < 0 \/ (b.k = "inf" /\ b.v > 0))
  ELSE IF b.k = "inf" THEN b.v > 0
  ELSE a.v <= b.v

Max(a, b) == IF a > b THEN a ELSE b
Min(a, b) == IF a < b THEN a ELSE b

\* ------------------------------------------------------------------------
\* Size specifications: a constant, or a function of the index
\* ------------------------------------------------------------------------
Const(n) == [kind |-> "const", v |-> n, name |-> "-"]
Fn(name) == [kind |-> "fn", v |-> 0, name |-> name]

\* What a call size(index) of a size function produces: a JavaScript number,
\* or an exception ("throw").
Thrown == [k |-> "throw", v |-> 0]

\* a value that is not of type number
NotANumber == [k |-> "string", v |-> 0]

SizeFunction(name, index) ==
  CASE name = "alt" -> Fin(1 + (index % 2))
    [] name = "nan" -> IF index = 1 THEN NaN ELSE Fin(2)
    [] name = "throws" -> IF index = 0 THEN Thrown ELSE Fin(1)
    [] name = "inf" -> IF index = 0 THEN PosInf ELSE Fin(3)
    [] name = "string" -> NotANumber
    [] name = "linear" -> Fin(3 * index)
    [] OTHER -> Fin(-1)

\* calculateSafeSize that lets a negative size through
calculateSafeSize_AcceptsNegative(size, index, fallback) ==
  LET calculatedSize == IF size.kind = "const" THEN Fin(size.v)
                        ELSE SizeFunction(size.name, index)
  IN  IF calculatedSize.k # "fin" THEN fallback ELSE calculatedSize.v

calculateSafeSize(size, index, fallback) ==
  LET calculatedSize == IF size.kind = "const" THEN Fin(size.v)
                        ELSE SizeFunction(size.name, index)
  IN  IF calculatedSize.k = "throw" THEN fallback
      ELSE IF calculatedSize.k # "fin" \/ calculatedSize.v < 0 THEN fallback
      ELSE calculatedSize.v

\* the number of console.warn calls of one calculateSafeSize call
consoleWarnCount(size, index) ==
  LET calculatedSize == IF size.kind = "const" THEN Fin(size.v)
                        ELSE SizeFunction(size.name, index)
  IN  IF calculatedSize.k = "throw" THEN 1
      ELSE IF calculatedSize.k # "fin" \/ calculatedSize.v < 0 THEN 1
      ELSE 0

RECURSIVE SumSizes(_, _, _)
SumSizes(count, size, startIndex) ==
  IF count <= 0 THEN 0
  ELSE SumSizes(count - 1, size, startIndex)
       + calculateSafeSize(size, startIndex + (count - 1), 0)

\* calculateCumulativeSize that leaves out the item at startIndex
calculateCumulativeSize_SkipsFirst(count, size, startIndex) ==
  IF size.kind = "const" THEN count * size.v
  ELSE SumSizes(count - 1, size, startIndex + 1)

calculateCumulativeSize(count, size, startIndex) ==
  IF size.kind = "const" THEN count * size.v
  ELSE SumSizes(count, size, startIndex)

\* ------------------------------------------------------------------------
\* useVirtualizationDimensions
\* ------------------------------------------------------------------------
Avg(num, den) == [num |-> num, den |-> den]

\* the two averages are the same JavaScript number
AvgEq(a, b) == a.num * b.den = b.num * a.den

\* count * avg (an integer: den divides count * num for every average the
\* dimensions hook produces for that count)
Times(count, avg) == (count * avg.num) \div avg.den

totalSize(count, size) == calculateCumulativeSize(count, size, 0)

\* avgSize without the test of the count for a constant size
avgSize_IgnoresCount(count, size) ==
  IF size.kind = "const"
    THEN Avg(size.v, 1)
    ELSE (IF count > 0 THEN Avg(totalSize(count, size), count) ELSE Avg(0, 1))

avgSize(count, size) ==
  IF size.kind = "const"
    THEN (IF count > 0 THEN Avg(size.v, 1) ELSE Avg(0, 1))
    ELSE (IF count > 0 THEN Avg(totalSize(count, size), count) ELSE Avg(0, 1))

useVirtualizationDimensions(numRows, numColumns, rowHeight, columnWidth) ==
  [ totalHeight    |-> totalSize(numRows, rowHeight),
    totalWidth     |-> totalSize(numColumns, columnWidth),
    avgRowHeight   |-> avgSize(numRows, rowHeight),
    avgColumnWidth |-> avgSize(numColumns, columnWidth) ]

\* The arguments useVirtualization hands to useVisibleRange
RangeArgs(p) ==
  LET dimensions == useVirtualizationDimensions(p.numRows, p.numColumns,
                                                p.rowHeight, p.columnWidth)
  IN  [ containerHeight     |-> p.containerHeight,
        containerWidth      |-> p.containerWidth,
        numRows             |-> p.numRows,
        numColumns          |-> p.numColumns,
        avgRowHeight        |-> dimensions.avgRowHeight,
        avgColumnWidth      |-> dimensions.avgColumnWidth,
        overscanRowCount    |-> p.overscanRowCount,
        overscanColumnCount |-> p.overscanColumnCount ]

\* ------------------------------------------------------------------------
\* useVisibleRange
\* ------------------------------------------------------------------------
\* useState initializer
initialRange(a) ==
  LET visibleRows    == JsAdd(FloorDiv(a.containerHeight, a.avgRowHeight), 1)
      visibleColumns == JsAdd(FloorDiv(a.containerWidth, a.avgColumnWidth), 1)
  IN  [ firstRow    |-> JsMax(0, Fin(0 - a.overscanRowCount)),
        lastRow     |-> JsMin(a.numRows - 1,
                              JsAdd(visibleRows, a.overscanRowCount - 1)),
        firstColumn |-> JsMax(0, Fin(0 - a.overscanColumnCount)),
        lastColumn  |-> JsMin(a.numColumns - 1,
                              JsAdd(visibleColumns, a.overscanColumnCount - 1)) ]

\* rangeEffect that resets the range to the one at the origin
rangeEffect_Reset(a, top, left) == initialRange(a)

\* the range the "recalculate" effect hands to setRange
rangeEffect(a, top, left) ==
  LET firstVisibleRow    == FloorDiv(top, a.avgRowHeight)
      lastVisibleRow     == FloorDiv(top + a.containerHeight, a.avgRowHeight)
      firstVisibleColumn == FloorDiv(left, a.avgColumnWidth)
      lastVisibleColumn  == FloorDiv(left + a.containerWidth, a.avgColumnWidth)
  IN  [ firstRow    |-> JsMax(0, JsAdd(firstVisibleRow, 0 - a.overscanRowCount)),
        lastRow     |-> JsMin(a.numRows - 1,
                              JsAdd(lastVisibleRow, a.overscanRowCount)),
        firstColumn |-> JsMax(0, JsAdd(firstVisibleColumn,
                                       0 - a.overscanColumnCount)),
        lastColumn  |-> JsMin(a.numColumns - 1,
                              JsAdd(lastVisibleColumn, a.overscanColumnCount)) ]

\* onScrollRange with the first index taken from the origin instead of the
\* scroll offset
onScrollRange_FromOrigin(a, top, left) ==
  LET lastVisibleRow     == FloorDiv(top + a.containerHeight, a.avgRowHeight)
      lastVisibleColumn  == FloorDiv(left + a.containerWidth, a.avgColumnWidth)
  IN  [ firstRow    |-> JsMax(0, Fin(0 - a.overscanRowCount)),
        lastRow     |-> JsMin(a.numRows - 1,
                              JsAdd(lastVisibleRow, a.overscanRowCount)),
        firstColumn |-> JsMax(0, Fin(0 - a.overscanColumnCount)),
        lastColumn  |-> JsMin(a.numColumns - 1,
                              JsAdd(lastVisibleColumn, a.overscanColumnCount)) ]

\* onScrollRange with the overscan added to the first index
onScrollRange_OverscanInward(a, top, left) ==
  LET firstVisibleRow    == FloorDiv(top, a.avgRowHeight)
      lastVisibleRow     == FloorDiv(top + a.containerHeight, a.avgRowHeight)
      firstVisibleColumn == FloorDiv(left, a.avgColumnWidth)
      lastVisibleColumn  == FloorDiv(left + a.containerWidth, a.avgColumnWidth)
  IN  [ firstRow    |-> JsMax(0, JsAdd(firstVisibleRow, a.overscanRowCount)),
        lastRow     |-> JsMin(a.numRows - 1,
                              JsAdd(lastVisibleRow, a.overscanRowCount)),
        firstColumn |-> JsMax(0, JsAdd(firstVisibleColumn,
                                       a.overscanColumnCount)),
        lastColumn  |-> JsMin(a.numColumns - 1,
                              JsAdd(lastVisibleColumn, a.overscanColumnCount)) ]

\* onScrollRange without the upper clamp of the last indices
onScrollRange_NoUpperClamp(a, top, left) ==
  LET firstVisibleRow    == FloorDiv(top, a.avgRowHeight)
      lastVisibleRow     == FloorDiv(top + a.containerHeight, a.avgRowHeight)
      firstVisibleColumn == FloorDiv(left, a.avgColumnWidth)
      lastVisibleColumn  == FloorDiv(left + a.containerWidth, a.avgColumnWidth)
  IN  [ firstRow    |-> JsMax(0, JsAdd(firstVisibleRow, 0 - a.overscanRowCount)),
        lastRow     |-> JsAdd(lastVisibleRow, a.overscanRowCount),
        firstColumn |-> JsMax(0, JsAdd(firstVisibleColumn,
                                       0 - a.overscanColumnCount)),
        lastColumn  |-> JsAdd(lastVisibleColumn, a.overscanColumnCount) ]

\* the range the onScroll handler hands to setRange
onScrollRange(a, top, left) ==
  LET firstVisibleRow    == FloorDiv(top, a.avgRowHeight)
      lastVisibleRow     == FloorDiv(top + a.containerHeight, a.avgRowHeight)
      firstVisibleColumn == FloorDiv(left, a.avgColumnWidth)
      lastVisibleColumn  == FloorDiv(left + a.containerWidth, a.avgColumnWidth)
  IN  [ firstRow    |-> JsMax(0, JsAdd(firstVisibleRow, 0 - a.overscanRowCount)),
        lastRow     |-> JsMin(a.numRows - 1,
                              JsAdd(lastVisibleRow, a.overscanRowCount)),
        firstColumn |-> JsMax(0, JsAdd(firstVisibleColumn,
                                       0 - a.overscanColumnCount)),
        lastColumn  |-> JsMin(a.numColumns - 1,
                              JsAdd(lastVisibleColumn, a.overscanColumnCount)) ]

\* maxScroll that stops one short of the last valid offset
maxScroll_OneShort(count, avg, container) ==
  Max(0, Times(count, avg) - container - 1)

\* maxScroll that forgets the viewport
maxScroll_NoViewport(count, avg, container) == Max(0, Times(count, avg))

\* the scroll-correction effect: the offsets it computes for the container
maxScroll(count, avg, container) == Max(0, Times(count, avg) - container)

\* correctScroll without the lower clamp
correctScroll_NoLowerClamp(a, top, left) ==
  LET maxScrollTop  == maxScroll(a.numRows, a.avgRowHeight, a.containerHeight)
      maxScrollLeft == maxScroll(a.numColumns, a.avgColumnWidth,
                                 a.containerWidth)
  IN  [ top  |-> Min(top, maxScrollTop),
        left |-> Min(left, maxScrollLeft) ]

correctScroll(a, top, left) ==
  LET maxScrollTop  == maxScroll(a.numRows, a.avgRowHeight, a.containerHeight)
      maxScrollLeft == maxScroll(a.numColumns, a.avgColumnWidth,
                                 a.containerWidth)
  IN  [ top  |-> Min(Max(0, top), maxScrollTop),
        left |-> Min(Max(0, left), maxScrollLeft) ]

\* dependency lists of the two effects (compared as React does, by value
\* for numbers)
correctionDepsChanged(a, b) ==
  \/ a.containerHeight # b.containerHeight
  \/ a.containerWidth # b.containerWidth
  \/ ~AvgEq(a.avgRowHeight, b.avgRowHeight)
  \/ ~AvgEq(a.avgColumnWidth, b.avgColumnWidth)
  \/ a.numRows # b.numRows
  \/ a.numColumns # b.numColumns

rangeDepsChanged(a, b) ==
  \/ correctionDepsChanged(a, b)
  \/ a.overscanRowCount # b.overscanRowCount
  \/ a.overscanColumnCount # b.overscanColumnCount

\* onScroll with an empty dependency list: the handler of the first render
\* is kept for ever
onScrollDepsChanged_Empty(a, b) == FALSE

\* dependency list of the onScroll callback
onScrollDepsChanged(a, b) ==
  \/ ~AvgEq(a.avgRowHeight, b.avgRowHeight)
  \/ ~AvgEq(a.avgColumnWidth, b.avgColumnWidth)
  \/ a.containerHeight # b.containerHeight
  \/ a.containerWidth # b.containerWidth
  \/ a.numRows # b.numRows
  \/ a.numColumns # b.numColumns
  \/ a.overscanRowCount # b.overscanRowCount
  \/ a.overscanColumnCount # b.overscanColumnCount

\* ------------------------------------------------------------------------
\* createCellStyle and useRenderCells
\* ------------------------------------------------------------------------
\* createCellStyle that positions a cell from the origin of the grid
createCellStyle_FromOrigin(rowIndex, columnIndex, firstVisibleRow, firstVisibleColumn, rowHeight, columnWidth) ==
  [ top    |-> IF rowHeight.kind = "const"
                 THEN rowIndex * rowHeight.v
                 ELSE calculateCumulativeSize(rowIndex, rowHeight, 0),
    left   |-> IF columnWidth.kind = "const"
                 THEN columnIndex * columnWidth.v
                 ELSE calculateCumulativeSize(columnIndex, columnWidth, 0),
    height |-> calculateSafeSize(rowHeight, rowIndex, 50),
    width  |-> calculateSafeSize(columnWidth, columnIndex, 100) ]

createCellStyle(rowIndex, columnIndex, firstVisibleRow, firstVisibleColumn, rowHeight, columnWidth) ==
  LET relativeRowIndex    == rowIndex - firstVisibleRow
      relativeColumnIndex == columnIndex - firstVisibleColumn
  IN  [ top    |-> IF rowHeight.kind = "const"
                     THEN relativeRowIndex * rowHeight.v
                     ELSE calculateCumulativeSize(relativeRowIndex, rowHeight,
                                                  firstVisibleRow),
        left   |-> IF columnWidth.kind = "const"
                     THEN relativeColumnIndex * columnWidth.v
                     ELSE calculateCumulativeSize(relativeColumnIndex,
                                                  columnWidth,
                                                  firstVisibleColumn),
        height |-> calculateSafeSize(rowHeight, rowIndex, 50),
        width  |-> calculateSafeSize(columnWidth, columnIndex, 100) ]

\* The render callback (the children prop), by name.  What a call
\* children({rowIndex, columnIndex, style, key}) produces: a node, or an
\* exception.
children(callback, rowIndex, columnIndex) ==
  CASE callback = "cell" -> "cell"
    [] callback = "throwsAt11" ->
         IF rowIndex = 1 /\ columnIndex = 1 THEN "throw" ELSE "cell"
    [] callback = "null" -> "null"
    [] OTHER -> "throw"

\* the body of the inner loop with a catch block that pushes nothing
renderCell_DropFailed(rowIndex, columnIndex, r, rowHeight, columnWidth, callback) ==
  LET style == createCellStyle(rowIndex, columnIndex, r.firstRow.v,
                               r.firstColumn.v, rowHeight, columnWidth)
      cell  == children(callback, rowIndex, columnIndex)
  IN  IF cell # "throw"
        THEN << [ rowIndex |-> rowIndex, columnIndex |-> columnIndex,
                  style |-> style, node |-> cell ] >>
        ELSE << >>

\* the body of the inner loop: try { cells.push(children(...)) }
\* catch { cells.push(<div style={fallbackStyle}>Error</div>) }
renderCell(rowIndex, columnIndex, r, rowHeight, columnWidth, callback) ==
  LET style == createCellStyle(rowIndex, columnIndex, r.firstRow.v,
                               r.firstColumn.v, rowHeight, columnWidth)
      cell  == children(callback, rowIndex, columnIndex)
  IN  IF cell # "throw"
        THEN << [ rowIndex |-> rowIndex, columnIndex |-> columnIndex,
                  style |-> style, node |-> cell ] >>
        ELSE << [ rowIndex |-> rowIndex, columnIndex |-> columnIndex,
                  style |-> style, node |-> "Error" ] >>

\* the inner loop with columnIndex < lastColumn
RECURSIVE columnLoop_Exclusive(_, _, _, _, _, _)
columnLoop_Exclusive(rowIndex, columnIndex, r, rowHeight, columnWidth, callback) ==
  IF JsLe(Fin(columnIndex + 1), r.lastColumn)
    THEN renderCell(rowIndex, columnIndex, r, rowHeight, columnWidth, callback)
         \o columnLoop_Exclusive(rowIndex, columnIndex + 1, r, rowHeight,
                                 columnWidth, callback)
    ELSE << >>

\* the inner loop: columnIndex = firstColumn; columnIndex <= lastColumn
RECURSIVE columnLoop(_, _, _, _, _, _)
columnLoop(rowIndex, columnIndex, r, rowHeight, columnWidth, callback) ==
  IF JsLe(Fin(columnIndex), r.lastColumn)
    THEN renderCell(rowIndex, columnIndex, r, rowHeight, columnWidth, callback)
         \o columnLoop(rowIndex, columnIndex + 1, r, rowHeight, columnWidth,
                       callback)
    ELSE << >>

\* the outer loop: rowIndex = firstRow; rowIndex <= lastRow.  A first index
\* that is NaN or Infinity fails the first comparison (lastColumn and
\* lastRow are never +Infinity: they come out of Math.min with a finite
\* number).
RECURSIVE rowLoop(_, _, _, _, _)
rowLoop(rowIndex, r, rowHeight, columnWidth, callback) ==
  IF JsLe(Fin(rowIndex), r.lastRow)
    THEN (IF IsFin(r.firstColumn)
            THEN columnLoop(rowIndex, r.firstColumn.v, r, rowHeight,
                            columnWidth, callback)
            ELSE << >>)
         \o rowLoop(rowIndex + 1, r, rowHeight, columnWidth, callback)
    ELSE << >>

renderCells(r, rowHeight, columnWidth, callback) ==
  IF IsFin(r.firstRow)
    THEN rowLoop(r.firstRow.v, r, rowHeight, columnWidth, callback)
    ELSE << >>

\* useVirtualization: the translation of the rendered block
scrollOffset(first, size) ==
  IF size.kind = "const" THEN JsMul(first, size.v) ELSE Fin(0)

\* ------------------------------------------------------------------------
\* useValidatedProps: props as the caller passes them (type unknown)
\* ------------------------------------------------------------------------
Undefined == [k |-> "undefined", v |-> 0]

\* a function that declares n parameters (fn.length = n)
FunctionOf(n) == [k |-> "function", v |-> n]

\* the fallback renderer () => null
NoopRenderer == [k |-> "noop", v |-> 0]

\* checkNumberProp that lets a negative number through
checkNumberProp_AllowsNegative(prop, fallback) ==
  IF prop.k = "fin" THEN prop ELSE Fin(fallback)

checkNumberProp(prop, fallback) ==
  IF prop.k = "fin" /\ prop.v >= 0 THEN prop ELSE Fin(fallback)

isSizeFunction(fn) == fn.k = "function" /\ fn.v = 1

isRenderFunction(fn) == fn.k = "function" /\ fn.v = 1

checkNumberOrSizeFunctionProp(prop, fallback) ==
  IF prop.k = "fin" /\ prop.v >= 0 THEN prop
  ELSE IF isSizeFunction(prop) THEN prop
  ELSE Fin(fallback)

checkFunctionProp(prop, fallback) ==
  IF isRenderFunction(prop) THEN prop ELSE fallback

useValidatedProps(p) ==
  [ numRows             |-> checkNumberProp(p.numRows, 0),
    numColumns          |-> checkNumberProp(p.numColumns, 0),
    rowHeight           |-> checkNumberOrSizeFunctionProp(p.rowHeight, 0),
    columnWidth         |-> checkNumberOrSizeFunctionProp(p.columnWidth, 0),
    containerHeight     |-> checkNumberProp(p.containerHeight, 0),
    containerWidth      |-> checkNumberProp(p.containerWidth, 0),
    children            |-> checkFunctionProp(p.children, NoopRenderer),
    overscanRowCount    |-> checkNumberProp(p.overscanRowCount, 1),
    overscanColumnCount |-> checkNumberProp(p.overscanColumnCount, 1) ]

\* ------------------------------------------------------------------------
\* Inputs
\* ------------------------------------------------------------------------
RowSizes == {Const(0), Const(2), Fn("alt")}
ColumnSizes == {Const(1), Fn("alt")}
ContainerHeights == {0, 2}
ContainerWidths == {1}
ScrollTops == {-1, 0, 1, MaxScroll}
ScrollLefts == {0, 2}
RowOverscans == 0 .. MaxOverscan
ColumnOverscans == {1}
Renderers == {"cell"}

\* validated props
Props ==
  [ numRows             : 0 .. MaxRows,
    numColumns          : 0 .. MaxCols,
    rowHeight           : RowSizes,
    columnWidth         : ColumnSizes,
    containerHeight     : ContainerHeights,
    containerWidth      : ContainerWidths,
    overscanRowCount    : RowOverscans,
    overscanColumnCount : ColumnOverscans,
    children            : Renderers,
    onRenderEnd         : {"none"} ]

\* the props after one form field has been edited
OneFieldChanged(p) ==
  UNION {
    { [p EXCEPT !.numRows = v] : v \in 0 .. MaxRows },
    { [p EXCEPT !.numColumns = v] : v \in 0 .. MaxCols },
    { [p EXCEPT !.rowHeight = v] : v \in RowSizes },
    { [p EXCEPT !.columnWidth = v] : v \in ColumnSizes },
    { [p EXCEPT !.containerHeight = v] : v \in ContainerHeights },
    { [p EXCEPT !.containerWidth = v] : v \in ContainerWidths },
    { [p EXCEPT !.overscanRowCount = v] : v \in RowOverscans },
    { [p EXCEPT !.overscanColumnCount = v] : v \in ColumnOverscans } }
  \ {p}

\* ------------------------------------------------------------------------
\* State
\* ------------------------------------------------------------------------
VARIABLES
  props,               \* the validated props of the current render
  range,               \* useVisibleRange: the range state
  scrollTop,           \* scroll container: scrollTop
  scrollLeft,          \* scroll container: scrollLeft
  cells,               \* what renderCells enumerated in the current render
  scrollOffsetY,       \* useVirtualization: translation of the block
  scrollOffsetX,
  phase,               \* "mount" / "update": effects of the render are
                       \* pending; "idle": nothing is pending
  due,                 \* which of the two effects the render scheduled
  scrollEventPending,  \* the host has a scroll event to deliver
  last,                \* the last step taken and the offset it started from
  onScroll,            \* useVisibleRange: the arguments the onScroll
                       \* callback of the current render has closed over
  call,                \* the last direct call of a hook or utility
  result,              \* and what it returned
  input,               \* useNumberParameter: the text of the form field
  param,               \* useNumberParameter: the number handed on
  metrics,             \* usePerformanceMonitoring: the metrics state
  dashboardPending,    \* Dashboard: a state update waits for its render
  formData,            \* Dashboard: the formData state
  parameters,          \* VirtualizerForm: the numbers of its eight fields
  formEffect           \* VirtualizerForm: its effect is due

componentVars == << props, range, scrollTop, scrollLeft, cells, scrollOffsetY,
                    scrollOffsetX, phase, due, scrollEventPending, last,
                    onScroll >>

callVars == << call, result >>

formVars == << input, param >>

\* the page around the Virtualizer: what a render of the Virtualizer leaves
\* alone, and all of it
pageVars == << formData, parameters, formEffect >>

dashboardVars == << metrics, dashboardPending, pageVars >>

vars == << componentVars, callVars, formVars, dashboardVars >>

NoCall == [fn |-> "none"]

Step(op) == [op |-> op, top |-> 0, left |-> 0]

\* the render of the component with props p and range state r
\* endRender of usePerformanceMonitoring: setMetrics with the number of
\* cells of the render and one render more
endRender(prev, cellCount) ==
  [renderCount |-> prev.renderCount + 1, cellCount |-> cellCount]

\* performanceRenderCells: onRenderEnd?.(cells.length)
Render(p, r) ==
  /\ cells' = renderCells(r, p.rowHeight, p.columnWidth, p.children)
  /\ IF p.onRenderEnd = "endRender"
       THEN /\ metrics' = endRender(metrics, Len(cells'))
            /\ dashboardPending' = TRUE
       ELSE UNCHANGED << metrics, dashboardPending >>
  /\ scrollOffsetY' = scrollOffset(r.firstRow, p.rowHeight)
  /\ scrollOffsetX' = scrollOffset(r.firstColumn, p.columnWidth)

\* the component as it is mounted with the props it has
Mounted ==
  /\ range = initialRange(RangeArgs(props))
  /\ scrollTop = 0
  /\ scrollLeft = 0
  /\ cells = renderCells(range, props.rowHeight, props.columnWidth,
                       props.children)
  /\ scrollOffsetY = scrollOffset(range.firstRow, props.rowHeight)
  /\ scrollOffsetX = scrollOffset(range.firstColumn, props.columnWidth)
  /\ phase = "mount"
  /\ due = [range |-> TRUE, correction |-> TRUE]
  /\ scrollEventPending = FALSE
  /\ last = [op |-> "mount", top |-> 0, left |-> 0]
  /\ onScroll = RangeArgs(props)

\* no form field is in use
NoForm == input = << >> /\ param = 0

\* the formData the Dashboard starts with
initialData ==
  [ numRows |-> MaxRows, numCols |-> MaxCols, rowHeight |-> 2,
    columnWidth |-> 1, containerHeight |-> 2, containerWidth |-> 1,
    overscanRowCount |-> 1, overscanColumnCount |-> 1 ]

\* the Virtualizer is used without a Dashboard around it
NoDashboard ==
  /\ metrics = [renderCount |-> 0, cellCount |-> 0]
  /\ dashboardPending = FALSE
  /\ formData = initialData
  /\ parameters = initialData
  /\ formEffect = FALSE

Init ==
  /\ props \in Props
  /\ Mounted
  /\ call = NoCall
  /\ result = NoCall
  /\ NoForm
  /\ NoDashboard

\* The parent re-renders the Virtualizer with one prop changed: the
\* component renders with the range state it has, the effects whose
\* dependencies changed are scheduled, and useCallback makes a new onScroll
\* when one of its dependencies changed.
ConfigChange(q) ==
  /\ phase = "idle"
  /\ ~scrollEventPending
  /\ props' = q
  /\ Render(q, range)
  /\ due' = [ range      |-> rangeDepsChanged(RangeArgs(props), RangeArgs(q)),
              correction |-> correctionDepsChanged(RangeArgs(props),
                                                   RangeArgs(q)) ]
  /\ phase' = IF due'.range \/ due'.correction THEN "update" ELSE "idle"
  /\ last' = Step("config")
  /\ onScroll' = IF onScrollDepsChanged(RangeArgs(props), RangeArgs(q))
                   THEN RangeArgs(q)
                   ELSE onScroll
  /\ UNCHANGED << range, scrollTop, scrollLeft, scrollEventPending, callVars, formVars, pageVars >>

\* The pending effects run in the order of their declaration: the range
\* effect reads the container's offsets and calls setRange, then the
\* correction effect clamps the offsets and writes them back when one of
\* them changed.  setRange makes the component render again.  Whether the
\* write raises a scroll event is up to the host.
RunEffects ==
  /\ phase \in {"mount", "update"}
  /\ LET a         == RangeArgs(props)
         newRange  == IF due.range THEN rangeEffect(a, scrollTop, scrollLeft)
                      ELSE range
         corrected == correctScroll(a, scrollTop, scrollLeft)
         write     == /\ due.correction
                      /\ (scrollTop # corrected.top
                          \/ scrollLeft # corrected.left)
     IN  /\ range' = newRange
         /\ Render(props, newRange)
         /\ scrollTop' = IF write THEN corrected.top ELSE scrollTop
         /\ scrollLeft' = IF write THEN corrected.left ELSE scrollLeft
         /\ scrollEventPending' \in (IF write THEN BOOLEAN ELSE {FALSE})
         /\ last' = IF write
                      THEN [ op |-> "corrected", top |-> scrollTop,
                             left |-> scrollLeft ]
                      ELSE Step("effects")
  /\ phase' = "idle"
  /\ due' = [range |-> FALSE, correction |-> FALSE]
  /\ UNCHANGED << props, onScroll, callVars, formVars, pageVars >>

\* The user scrolls the container to (top, left); the host delivers the
\* scroll event to the onScroll callback of the current render, which calls
\* setRange, and the component renders again.
Scroll(top, left) ==
  /\ phase = "idle"
  /\ ~scrollEventPending
  /\ << top, left >> # << scrollTop, scrollLeft >>
  /\ scrollTop' = top
  /\ scrollLeft' = left
  /\ range' = onScrollRange(onScroll, top, left)
  /\ Render(props, range')
  /\ last' = Step("scroll")
  /\ UNCHANGED << props, phase, due, scrollEventPending, onScroll, callVars, formVars, pageVars >>

\* DeliverScroll with a handler that scrolls the container back to the
\* origin
DeliverScroll_ScrollsToOrigin ==
  /\ phase = "idle"
  /\ scrollEventPending
  /\ range' = onScrollRange(onScroll, scrollTop, scrollLeft)
  /\ Render(props, range')
  /\ scrollTop' = 0
  /\ scrollLeft' = 0
  /\ scrollEventPending' = FALSE
  /\ last' = Step("deliver")
  /\ UNCHANGED << props, phase, due, onScroll, callVars, formVars, pageVars >>

\* The host delivers the scroll event raised by the correction's write.
DeliverScroll ==
  /\ phase = "idle"
  /\ scrollEventPending
  /\ range' = onScrollRange(onScroll, scrollTop, scrollLeft)
  /\ Render(props, range')
  /\ scrollEventPending' = FALSE
  /\ last' = Step("deliver")
  /\ UNCHANGED << props, scrollTop, scrollLeft, phase, due, onScroll,
                  callVars, formVars, pageVars >>

Next ==
  \/ \E q \in OneFieldChanged(props) : ConfigChange(q)
  \/ RunEffects
  \/ \E top \in ScrollTops, left \in ScrollLefts : Scroll(top, left)
  \/ DeliverScroll

Spec == Init /\ [][Next]_vars

\* The scheduler always runs pending effects and the host always delivers
\* an event it has raised.
FairSpec == Spec /\ WF_vars(RunEffects) /\ WF_vars(DeliverScroll)

TypeOK ==
  /\ props \in Props
  /\ phase \in {"mount", "update", "idle"}
  /\ scrollTop \in Int /\ scrollLeft \in Int
  /\ scrollEventPending \in BOOLEAN

\* ------------------------------------------------------------------------
\* The hooks and utilities called directly, one call at a time, with
\* arguments of the caller's choice
\* ------------------------------------------------------------------------
Callbacks == {"cell", "throwsAt11", "null", "throwsAll"}

\* ranges handed to useRenderCells
RangeInputs ==
  [ firstRow    : {Fin(0), Fin(1)},
    lastRow     : {Fin(i) : i \in 0 .. MaxRows - 1},
    firstColumn : {Fin(0), Fin(1)},
    lastColumn  : {Fin(i) : i \in 0 .. MaxCols - 1} ]

\* row heights handed to useRenderCells: those of the component, and size
\* functions that fail for one row
CellHeights == RowSizes \cup {Fn("nan"), Fn("throws")}

CallRenderCells(r, rowHeight, columnWidth, callback) ==
  /\ call = NoCall
  /\ call' = [ fn |-> "renderCells", range |-> r, rowHeight |-> rowHeight,
               columnWidth |-> columnWidth, children |-> callback ]
  /\ result' = [ fn |-> "renderCells",
                 cells |-> renderCells(r, rowHeight, columnWidth, callback) ]
  /\ UNCHANGED << componentVars, formVars, dashboardVars >>

\* sizes handed to the utilities: numbers and size functions, valid or not
SizeInputs ==
  { Const(-1), Const(0), Const(2), Fn("alt"), Fn("nan"), Fn("throws"),
    Fn("inf"), Fn("string"), Fn("negative") }

Fallbacks == {0, 50, 100}

CallCalculateSafeSize(size, index, fallback) ==
  /\ call = NoCall
  /\ call' = [ fn |-> "calculateSafeSize", size |-> size, index |-> index,
               fallback |-> fallback ]
  /\ result' = [ fn |-> "calculateSafeSize",
                 value |-> calculateSafeSize(size, index, fallback),
                 warnings |-> consoleWarnCount(size, index) ]
  /\ UNCHANGED << componentVars, formVars, dashboardVars >>

CallCreateCellStyle(rowIndex, columnIndex, firstVisibleRow, firstVisibleColumn, rowHeight, columnWidth) ==
  /\ call = NoCall
  /\ call' = [ fn |-> "createCellStyle", rowIndex |-> rowIndex,
               columnIndex |-> columnIndex,
               firstVisibleRow |-> firstVisibleRow,
               firstVisibleColumn |-> firstVisibleColumn,
               rowHeight |-> rowHeight, columnWidth |-> columnWidth ]
  /\ result' = [ fn |-> "createCellStyle",
                 style |-> createCellStyle(rowIndex, columnIndex,
                                           firstVisibleRow, firstVisibleColumn,
                                           rowHeight, columnWidth) ]
  /\ UNCHANGED << componentVars, formVars, dashboardVars >>

\* sizes handed to useVirtualizationDimensions
DimensionSizes == {Const(0), Const(2), Fn("alt"), Fn("linear")}

CallUseVirtualizationDimensions(numRows, numColumns, rowHeight, columnWidth) ==
  /\ call = NoCall
  /\ call' = [ fn |-> "useVirtualizationDimensions", numRows |-> numRows,
               numColumns |-> numColumns, rowHeight |-> rowHeight,
               columnWidth |-> columnWidth ]
  /\ result' = [ fn |-> "useVirtualizationDimensions",
                 dimensions |-> useVirtualizationDimensions(
                                  numRows, numColumns, rowHeight, columnWidth) ]
  /\ UNCHANGED << componentVars, formVars, dashboardVars >>

\* arguments of useVisibleRange
RangeArgInputs ==
  [ containerHeight     : ContainerHeights,
    containerWidth      : ContainerWidths,
    numRows             : 0 .. MaxRows,
    numColumns          : {MaxCols},
    avgRowHeight        : {Avg(0, 1), Avg(1, 1), Avg(2, 1), Avg(3, 2)},
    avgColumnWidth      : {Avg(1, 1)},
    overscanRowCount    : 0 .. MaxOverscan,
    overscanColumnCount : 0 .. MaxOverscan ]

\* onScroll of useVisibleRange(a...) called with a container at (top, left)
CallOnScroll(a, top, left) ==
  /\ call = NoCall
  /\ call' = [fn |-> "onScroll", args |-> a, top |-> top, left |-> left]
  /\ result' = [fn |-> "onScroll", range |-> onScrollRange(a, top, left)]
  /\ UNCHANGED << componentVars, formVars, dashboardVars >>

\* the range effect of useVisibleRange(a...) run with a container at
\* (top, left)
CallRangeEffect(a, top, left) ==
  /\ call = NoCall
  /\ call' = [fn |-> "rangeEffect", args |-> a, top |-> top, left |-> left]
  /\ result' = [fn |-> "rangeEffect", range |-> rangeEffect(a, top, left)]
  /\ UNCHANGED << componentVars, formVars, dashboardVars >>

\* the grids of the hook's tests: 10 x 5 and 20 x 10 cells of 50 x 100 in
\* a viewport of 400 x 500, at the origin and scrolled to (100, 100)
TestRangeCalls ==
  { [ a |-> [ containerHeight |-> 400, containerWidth |-> 500,
              numRows |-> 10, numColumns |-> 5,
              avgRowHeight |-> Avg(50, 1), avgColumnWidth |-> Avg(100, 1),
              overscanRowCount |-> 0, overscanColumnCount |-> 0 ],
      top |-> 0, left |-> 0 ],
    [ a |-> [ containerHeight |-> 400, containerWidth |-> 500,
              numRows |-> 20, numColumns |-> 10,
              avgRowHeight |-> Avg(50, 1), avgColumnWidth |-> Avg(100, 1),
              overscanRowCount |-> 1, overscanColumnCount |-> 1 ],
      top |-> 100, left |-> 100 ] }

\* values a caller may pass for a prop
RawValues ==
  { Fin(0), Fin(2), Fin(-1), NaN, PosInf, NegInf, NotANumber, Undefined,
    FunctionOf(0), FunctionOf(1), FunctionOf(2) }

PropNames ==
  { "numRows", "numColumns", "rowHeight", "columnWidth", "containerHeight",
    "containerWidth", "children", "overscanRowCount", "overscanColumnCount" }

\* props of the right types
ValidRawProps ==
  [ numRows |-> Fin(MaxRows), numColumns |-> Fin(MaxCols),
    rowHeight |-> Fin(2), columnWidth |-> FunctionOf(1),
    containerHeight |-> Fin(2), containerWidth |-> Fin(1),
    children |-> FunctionOf(1),
    overscanRowCount |-> Fin(0), overscanColumnCount |-> Fin(MaxOverscan) ]

\* valid props with one prop replaced, and props that all hold one value
RawPropInputs ==
  { [ValidRawProps EXCEPT ![f] = v] : f \in PropNames, v \in RawValues }
  \cup { [f \in PropNames |-> v] : v \in RawValues }

CallUseValidatedProps(p) ==
  /\ call = NoCall
  /\ call' = [fn |-> "useValidatedProps", props |-> p]
  /\ result' = [fn |-> "useValidatedProps", props |-> useValidatedProps(p)]
  /\ UNCHANGED << componentVars, formVars, dashboardVars >>

CallInit ==
  /\ props = [ numRows |-> MaxRows, numColumns |-> MaxCols,
               rowHeight |-> Const(2), columnWidth |-> Const(1),
               containerHeight |-> 2, containerWidth |-> 1,
               overscanRowCount |-> 1, overscanColumnCount |-> 1,
               children |-> "cell", onRenderEnd |-> "none" ]
  /\ Mounted
  /\ call = NoCall
  /\ result = NoCall
  /\ NoForm
  /\ NoDashboard

CallNext ==
  \/ \E r \in RangeInputs, rowHeight \in CellHeights, columnWidth \in ColumnSizes,
        callback \in Callbacks :
        CallRenderCells(r, rowHeight, columnWidth, callback)
  \/ \E size \in SizeInputs, index \in 0 .. MaxRows - 1, fallback \in Fallbacks :
        CallCalculateSafeSize(size, index, fallback)
  \/ \E firstVisibleRow \in 0 .. 1, firstVisibleColumn \in 0 .. 1,
        rowHeight \in SizeInputs, columnWidth \in SizeInputs :
        \E rowIndex \in firstVisibleRow .. MaxRows - 1,
           columnIndex \in firstVisibleColumn .. MaxCols - 1 :
           CallCreateCellStyle(rowIndex, columnIndex, firstVisibleRow,
                               firstVisibleColumn, rowHeight, columnWidth)
  \/ \E numRows \in 0 .. MaxRows, numColumns \in 0 .. MaxCols,
        rowHeight \in DimensionSizes, columnWidth \in DimensionSizes :
        CallUseVirtualizationDimensions(numRows, numColumns, rowHeight,
                                        columnWidth)
  \/ \E a \in RangeArgInputs, top \in ScrollTops, left \in ScrollLefts :
        CallOnScroll(a, top, left)
  \/ \E a \in RangeArgInputs, top \in ScrollTops, left \in ScrollLefts :
        CallRangeEffect(a, top, left)
  \/ \E c \in TestRangeCalls : CallOnScroll(c.a, c.top, c.left)
  \/ \E c \in TestRangeCalls : CallRangeEffect(c.a, c.top, c.left)
  \/ \E p \in RawPropInputs : CallUseValidatedProps(p)

CallSpec == CallInit /\ [][CallNext]_vars

\* ------------------------------------------------------------------------
\* useNumberParameter: a form field of the demo and the number it holds.
\* A string is the sequence of its characters.
\* ------------------------------------------------------------------------
Digits == << "0", "1", "2", "3", "4", "5", "6", "7", "8", "9" >>

IsDigit(c) == \E d \in 1 .. 10 : Digits[d] = c

DigitValue(c) == (CHOOSE d \in 1 .. 10 : Digits[d] = c) - 1

\* /^\d*$/.test(value)
RegExpTest(value) == \A i \in 1 .. Len(value) : IsDigit(value[i])

\* Number(value) for a string of digits (Number("") is 0)
RECURSIVE Number(_)
Number(value) ==
  IF value = << >> THEN 0
  ELSE Number(SubSeq(value, 1, Len(value) - 1)) * 10
       + DigitValue(value[Len(value)])

\* n.toString() for an integer n >= 0
RECURSIVE toString(_)
toString(n) ==
  IF n < 10 THEN << Digits[n + 1] >>
  ELSE toString(n \div 10) \o << Digits[(n % 10) + 1] >>

\* onChangeParam that hands on Number("") = 0 for an emptied field
onChangeParam_EmptyIsZero(state, value) ==
  IF RegExpTest(value)
    THEN [input |-> value, param |-> Number(value)]
    ELSE state

\* onChangeParam: the state [input, param] after the change event
onChangeParam(state, value) ==
  IF RegExpTest(value)
    THEN [ input |-> value,
           param |-> IF value # << >> THEN Number(value) ELSE state.param ]
    ELSE state

\* characters typed into the field, and the values of the change events
Chars == {"0", "7", "a"}

Values == UNION { [1 .. n -> Chars] : n \in 0 .. MaxLen }

InitialValues == {0, 5, 42}

Change(value) ==
  /\ LET next == onChangeParam([input |-> input, param |-> param], value)
     IN  input' = next.input /\ param' = next.param
  /\ call' = [fn |-> "onChangeParam", value |-> value]
  /\ UNCHANGED << componentVars, result, dashboardVars >>

FormInit ==
  /\ props = [ numRows |-> MaxRows, numColumns |-> MaxCols,
               rowHeight |-> Const(2), columnWidth |-> Const(1),
               containerHeight |-> 2, containerWidth |-> 1,
               overscanRowCount |-> 1, overscanColumnCount |-> 1,
               children |-> "cell", onRenderEnd |-> "none" ]
  /\ Mounted
  /\ call = NoCall
  /\ result = NoCall
  /\ \E initialValue \in InitialValues :
        /\ input = toString(initialValue)
        /\ param = initialValue
  /\ NoDashboard

FormNext == \E value \in Values : Change(value)

FormSpec == FormInit /\ [][FormNext]_vars

\* ------------------------------------------------------------------------
\* Dashboard: the form, the Virtualizer (wrapped in React.memo) and the
\* performance metrics on one page
\* ------------------------------------------------------------------------
\* the props the Dashboard hands to the Virtualizer
VirtualizerProps(data) ==
  [ numRows             |-> data.numRows,
    numColumns          |-> data.numCols,
    rowHeight           |-> Const(data.rowHeight),
    columnWidth         |-> Const(data.columnWidth),
    containerHeight     |-> data.containerHeight,
    containerWidth      |-> data.containerWidth,
    overscanRowCount    |-> data.overscanRowCount,
    overscanColumnCount |-> data.overscanColumnCount,
    children            |-> "cell",
    onRenderEnd         |-> "endRender" ]

\* a Virtualizer that is not wrapped in React.memo
memoPropsEqual_Never(prevProps, nextProps) == FALSE

\* React.memo: the props of the last render and the new ones are equal
\* (numbers, and callbacks that useCallback keeps)
memoPropsEqual(prevProps, nextProps) == prevProps = nextProps

\* the values typed into the fields of the form
FieldValues ==
  [ numRows |-> 0 .. MaxRows, rowHeight |-> {0, 2},
    containerHeight |-> {0, 2} ]

\* nothing on the page is waiting: no effect, no render, no event
PageQuiescent ==
  /\ ~formEffect
  /\ ~dashboardPending
  /\ phase = "idle"
  /\ ~scrollEventPending

\* The user types a number into a field: useNumberParameter sets its param,
\* the form renders again and its effect is due, one of its dependencies
\* having changed.
EditField(field, value) ==
  /\ PageQuiescent
  /\ metrics.renderCount < MaxRenders
  /\ value # parameters[field]
  /\ parameters' = [parameters EXCEPT ![field] = value]
  /\ formEffect' = TRUE
  /\ UNCHANGED << componentVars, callVars, formVars, metrics,
                  dashboardPending, formData >>

\* The effect of the form: onParametersChange(parameters), which is
\* setFormData of the Dashboard.
FormEffect ==
  /\ formEffect
  /\ formData' = parameters
  /\ dashboardPending' = TRUE
  /\ formEffect' = FALSE
  /\ UNCHANGED << componentVars, callVars, formVars, metrics, parameters >>

\* The Dashboard renders for a state update.  The form renders with the
\* parameters it has and the callback it had, so its effect is not due
\* again.  The Virtualizer renders when its props differ from those of its
\* last render (and calls onRenderEnd, which updates the metrics state of
\* the Dashboard); otherwise React.memo skips it.
DashboardRender ==
  /\ dashboardPending
  /\ phase = "idle"
  /\ ~scrollEventPending
  /\ IF memoPropsEqual(props, VirtualizerProps(formData))
       THEN /\ dashboardPending' = FALSE
            /\ UNCHANGED << componentVars, callVars, formVars, metrics,
                            pageVars >>
       ELSE ConfigChange(VirtualizerProps(formData))

\* The page as it is mounted: the first render of the Virtualizer has
\* called onRenderEnd, and the effect of the form is due.
DashboardInit ==
  /\ props = VirtualizerProps(initialData)
  /\ Mounted
  /\ call = NoCall
  /\ result = NoCall
  /\ NoForm
  /\ metrics = endRender([renderCount |-> 0, cellCount |-> 0], Len(cells))
  /\ dashboardPending = TRUE
  /\ formData = initialData
  /\ parameters = initialData
  /\ formEffect = TRUE

DashboardNext ==
  \/ \E field \in DOMAIN FieldValues :
        \E value \in FieldValues[field] : EditField(field, value)
  \/ FormEffect
  \/ DashboardRender
  \/ RunEffects
  \/ \E top \in ScrollTops, left \in ScrollLefts :
        metrics.renderCount < MaxRenders /\ Scroll(top, left)
  \/ DeliverScroll

DashboardSpec == DashboardInit /\ [][DashboardNext]_vars

\* ------------------------------------------------------------------------
\* Vocabulary of the properties
\* ------------------------------------------------------------------------
args == RangeArgs(props)

dims == useVirtualizationDimensions(props.numRows, props.numColumns,
                                    props.rowHeight, props.columnWidth)

\* The range state was produced under the present arguments of
\* useVisibleRange: no range effect is waiting for a changed dependency.
RangeResolved == phase \in {"mount", "idle"} \/ ~due.range

Quiescent == phase = "idle" /\ ~scrollEventPending

\* ScrollOffset invariant of the data model
Clamp(x, total, viewport) == Min(Max(0, x), Max(0, total - viewport))

InBounds ==
  /\ scrollTop = Clamp(scrollTop, dims.totalHeight, props.containerHeight)
  /\ scrollLeft = Clamp(scrollLeft, dims.totalWidth, props.containerWidth)

\* first <= last, both finite and inside [0, count - 1]
WithinGrid(first, lastIndex, count) ==
  /\ IsFin(first) /\ IsFin(lastIndex)
  /\ 0 <= first.v /\ first.v <= lastIndex.v /\ lastIndex.v <= count - 1

\* number of indices in [first, last] (0 when there is none)
Span(first, lastIndex) ==
  IF IsFin(first) /\ IsFin(lastIndex) /\ first.v <= lastIndex.v
    THEN lastIndex.v - first.v + 1
    ELSE 0

CellIndices == 1 .. Len(cells)

\* ------------------------------------------------------------------------
\* C1: every resolved range has 0 <= firstRow <= lastRow <= rowCount - 1
\* when rowCount > 0 (columns alike), for every scroll offset, also one
\* beyond the content.  Stated here for positive average sizes and
\* non-negative offsets, where the only way to fail is an offset beyond the
\* content.
\* ------------------------------------------------------------------------
C1_RangeWithinGrid ==
  (RangeResolved /\ scrollTop >= 0 /\ scrollLeft >= 0) =>
    /\ (props.numRows > 0 /\ args.avgRowHeight.num > 0) =>
         WithinGrid(range.firstRow, range.lastRow, props.numRows)
    /\ (props.numColumns > 0 /\ args.avgColumnWidth.num > 0) =>
         WithinGrid(range.firstColumn, range.lastColumn, props.numColumns)

\* ------------------------------------------------------------------------
\* C2: once a configuration change has been processed (its effects have
\* run and nothing is pending), the stored range is the range resolved from
\* the corrected scroll offset under the new configuration.  Stated here
\* for positive average sizes and for corrections of non-negative offsets.
\* ------------------------------------------------------------------------
C2_RangeFromCorrectedScroll ==
  ( /\ Quiescent
    /\ args.avgRowHeight.num > 0 /\ args.avgColumnWidth.num > 0
    /\ last.top >= 0 /\ last.left >= 0 ) =>
    range = rangeEffect(args, scrollTop, scrollLeft)

\* ------------------------------------------------------------------------
\* C3: the corrector leaves exactly the clamp of the offset it found:
\* top' = min(max(0, top), max(0, totalHeight - viewportHeight)), and the
\* same for left.
\* ------------------------------------------------------------------------
C3_ClampLaw ==
  [][ (phase # "idle" /\ phase' = "idle" /\ due.correction) =>
        /\ scrollTop' = Clamp(scrollTop, dims.totalHeight,
                              props.containerHeight)
        /\ scrollLeft' = Clamp(scrollLeft, dims.totalWidth,
                               props.containerWidth) ]_vars

\* the corrector has pulled an offset beyond the content back to the
\* largest valid one
C3_Witness ==
  /\ last.op = "corrected"
  /\ last.top > scrollTop
  /\ scrollTop = Max(0, dims.totalHeight - props.containerHeight)
  /\ scrollTop > 0

\* ------------------------------------------------------------------------
\* C4 (as claimed): whenever the offset is out of bounds, whatever put it
\* there, the corrector brings it back without further external input.  When
\* nothing is pending no step is left but external input, so the offset has
\* to be in bounds in every such state.
\* ------------------------------------------------------------------------
C4_AlwaysRestored == Quiescent => InBounds

\* C4 (amended): when a change of shape or viewport has scheduled the
\* correction effect, the one step that can follow is the run of the
\* effects (no external input is taken before it), and it leaves the offset
\* in bounds.
C4_RestoredAfterConfigChange ==
  [][ (phase = "update" /\ due.correction) =>
        (phase' = "idle" /\ InBounds') ]_vars

\* a change of shape shrank the content under the offset, and the
\* corrector brought the offset back
C4_Witness ==
  /\ last.op = "corrected"
  /\ InBounds
  /\ last.top # Clamp(last.top, dims.totalHeight, props.containerHeight)
  /\ scrollTop = 0

\* ------------------------------------------------------------------------
\* C5: with rowCount = 0 or columnCount = 0, renderCells enumerates no
\* cell.
\* ------------------------------------------------------------------------
C5_NoCellsForEmptyGrid ==
  (props.numRows = 0 \/ props.numColumns = 0) => cells = << >>

\* ------------------------------------------------------------------------
\* C6: a resolved range has both bounds of an axis at 0 when the count of
\* that axis is 0.
\* ------------------------------------------------------------------------
C6_ZeroCountCollapses ==
  RangeResolved =>
    /\ props.numRows = 0 =>
         (range.firstRow = Fin(0) /\ range.lastRow = Fin(0))
    /\ props.numColumns = 0 =>
         (range.firstColumn = Fin(0) /\ range.lastColumn = Fin(0))

\* ------------------------------------------------------------------------
\* C7: for every enumerated cell, translation of the block + relative
\* top/left = the cell's offset from the grid origin (the sum of the sizes
\* of the rows/columns before it), for constant sizes and size functions.
\* ------------------------------------------------------------------------
GridOffset(index, size) == calculateCumulativeSize(index, size, 0)

C7_TranslationRestoresGridOffset ==
  \A k \in CellIndices :
    /\ IsFin(scrollOffsetY) /\ IsFin(scrollOffsetX)
    /\ scrollOffsetY.v + cells[k].style.top
         = GridOffset(cells[k].rowIndex, props.rowHeight)
    /\ scrollOffsetX.v + cells[k].style.left
         = GridOffset(cells[k].columnIndex, props.columnWidth)

\* ------------------------------------------------------------------------
\* C8: for constant sizes, every enumerated cell has
\* 0 <= top <= viewportHeight + (2 * overscanRowCount + 1) * rowHeight
\* (left alike).
\* ------------------------------------------------------------------------
C8_RelativeOffsetBounded ==
  \A k \in CellIndices :
    /\ props.rowHeight.kind = "const" =>
         /\ 0 <= cells[k].style.top
         /\ cells[k].style.top <=
              props.containerHeight
              + (2 * props.overscanRowCount + 1) * props.rowHeight.v
    /\ props.columnWidth.kind = "const" =>
         /\ 0 <= cells[k].style.left
         /\ cells[k].style.left <=
              props.containerWidth
              + (2 * props.overscanColumnCount + 1) * props.columnWidth.v

\* ------------------------------------------------------------------------
\* C9: with positive average sizes a resolved range holds at most
\* floor(viewportHeight / avgRowHeight) + 2 + 2 * overscanRowCount rows
\* (columns alike), and renderCells enumerates at most the product of the
\* two bounds.
\* ------------------------------------------------------------------------
SpanBound(viewport, avg, overscan) ==
  ((viewport * avg.den) \div avg.num) + 2 + 2 * overscan

C9_RangeSizeBounded ==
  RangeResolved =>
    /\ args.avgRowHeight.num > 0 =>
         /\ IsFin(range.firstRow) /\ IsFin(range.lastRow)
         /\ range.lastRow.v - range.firstRow.v + 1
              <= SpanBound(props.containerHeight, args.avgRowHeight,
                           props.overscanRowCount)
    /\ args.avgColumnWidth.num > 0 =>
         /\ IsFin(range.firstColumn) /\ IsFin(range.lastColumn)
         /\ range.lastColumn.v - range.firstColumn.v + 1
              <= SpanBound(props.containerWidth, args.avgColumnWidth,
                           props.overscanColumnCount)
    /\ (args.avgRowHeight.num > 0 /\ args.avgColumnWidth.num > 0) =>
         Len(cells) <= SpanBound(props.containerHeight, args.avgRowHeight,
                                 props.overscanRowCount)
                       * SpanBound(props.containerWidth, args.avgColumnWidth,
                                   props.overscanColumnCount)

\* the grid is scrolled and the range is as large as the bound allows
C9_Witness ==
  /\ last.op = "scroll"
  /\ scrollTop > 0
  /\ args.avgRowHeight.num > 0
  /\ Len(cells) > 0
  /\ Span(range.firstRow, range.lastRow)
       = SpanBound(props.containerHeight, args.avgRowHeight,
                   props.overscanRowCount)

\* ------------------------------------------------------------------------
\* C10: renderCells enumerates exactly the pairs of
\* [firstRow..lastRow] x [firstColumn..lastColumn] of the current range,
\* each once, in row-major order.
\* ------------------------------------------------------------------------
C10_RowMajorEnumeration ==
  LET nr == Span(range.firstRow, range.lastRow)
      nc == Span(range.firstColumn, range.lastColumn)
  IN  /\ Len(cells) = nr * nc
      /\ \A k \in CellIndices :
           /\ cells[k].rowIndex = range.firstRow.v + ((k - 1) \div nc)
           /\ cells[k].columnIndex = range.firstColumn.v + ((k - 1) % nc)

\* two rows of two columns, away from the origin
C10_Witness ==
  /\ Len(cells) = 4
  /\ cells[1].rowIndex > 0
  /\ cells[2].rowIndex = cells[1].rowIndex
  /\ cells[2].columnIndex = cells[1].columnIndex + 1
  /\ cells[3].rowIndex = cells[1].rowIndex + 1

ValueOf(size, index) ==
  IF size.kind = "const" THEN Fin(size.v) ELSE SizeFunction(size.name, index)

IsValidSize(x) == x.k = "fin" /\ x.v >= 0

C12_SafeSizeFallback ==
  /\ call.fn = "calculateSafeSize" =>
       LET x == ValueOf(call.size, call.index)
       IN  IF IsValidSize(x)
             THEN result.value = x.v /\ result.warnings = 0
             ELSE result.value = call.fallback /\ result.warnings = 1
  /\ call.fn = "createCellStyle" =>
       LET h == ValueOf(call.rowHeight, call.rowIndex)
           w == ValueOf(call.columnWidth, call.columnIndex)
       IN  /\ result.style.height = IF IsValidSize(h) THEN h.v ELSE 50
           /\ result.style.width = IF IsValidSize(w) THEN w.v ELSE 100

\* the size function returned NaN and the caller's fallback 50 came back
C12_Witness ==
  /\ call.fn = "calculateSafeSize"
  /\ call.size = Fn("nan") /\ call.index = 1 /\ call.fallback = 50
  /\ result.value = 50 /\ result.warnings = 1

RECURSIVE SumTo(_, _)
SumTo(name, n) ==
  IF n = 0 THEN 0 ELSE SumTo(name, n - 1) + SizeFunction(name, n - 1).v

C14_FunctionDimensions ==
  call.fn = "useVirtualizationDimensions" =>
    /\ call.rowHeight.kind = "fn" =>
         /\ result.dimensions.totalHeight
              = SumTo(call.rowHeight.name, call.numRows)
         /\ AvgEq(result.dimensions.avgRowHeight,
                  IF call.numRows > 0
                    THEN Avg(SumTo(call.rowHeight.name, call.numRows),
                             call.numRows)
                    ELSE Avg(0, 1))
    /\ call.columnWidth.kind = "fn" =>
         /\ result.dimensions.totalWidth
              = SumTo(call.columnWidth.name, call.numColumns)
         /\ AvgEq(result.dimensions.avgColumnWidth,
                  IF call.numColumns > 0
                    THEN Avg(SumTo(call.columnWidth.name, call.numColumns),
                             call.numColumns)
                    ELSE Avg(0, 1))

\* three rows of heights 0, 3, 6: total 9, average 3
C14_Witness ==
  /\ call.fn = "useVirtualizationDimensions"
  /\ call.rowHeight = Fn("linear") /\ call.numRows = 3
  /\ result.dimensions.totalHeight = 9
  /\ AvgEq(result.dimensions.avgRowHeight, Avg(3, 1))

\* ------------------------------------------------------------------------
\* C15: with the other inputs fixed, a larger overscanRowCount never
\* shrinks the resolved row range: firstRow does not increase and lastRow
\* does not decrease (columns alike).  Compared as JavaScript numbers,
\* wherever the bounds are numbers (not NaN).
\* ------------------------------------------------------------------------
IsNumber(x) == x.k # "nan"

NotShrunk(small, big) ==
  /\ (IsNumber(small.firstRow) /\ IsNumber(big.firstRow)) =>
       JsLe(big.firstRow, small.firstRow)
  /\ (IsNumber(small.lastRow) /\ IsNumber(big.lastRow)) =>
       JsLe(small.lastRow, big.lastRow)
  /\ (IsNumber(small.firstColumn) /\ IsNumber(big.firstColumn)) =>
       JsLe(big.firstColumn, small.firstColumn)
  /\ (IsNumber(small.lastColumn) /\ IsNumber(big.lastColumn)) =>
       JsLe(small.lastColumn, big.lastColumn)

C15_OverscanMonotonic ==
  call.fn = "onScroll" =>
    /\ \A o \in 0 .. call.args.overscanRowCount :
         NotShrunk(onScrollRange([call.args EXCEPT !.overscanRowCount = o],
                                 call.top, call.left),
                   result.range)
    /\ \A o \in 0 .. call.args.overscanColumnCount :
         NotShrunk(onScrollRange([call.args EXCEPT !.overscanColumnCount = o],
                                 call.top, call.left),
                   result.range)

\* rows 1..1 without overscan, rows 0..2 with an overscan of 1
C15_Witness ==
  /\ call.fn = "onScroll"
  /\ call.args.overscanRowCount = 1
  /\ result.range.firstRow = Fin(0) /\ result.range.lastRow = Fin(2)
  /\ LET small == onScrollRange([call.args EXCEPT !.overscanRowCount = 0],
                                call.top, call.left)
     IN  small.firstRow = Fin(1) /\ small.lastRow = Fin(1)

\* ------------------------------------------------------------------------
\* C16: with an average row height of 0 (constant height 0, or no rows)
\* the resolved row bounds are integers, never NaN or infinite, whatever
\* the scroll offset (columns alike).
\* ------------------------------------------------------------------------
C16_ZeroAverageWellDefined ==
  RangeResolved =>
    /\ args.avgRowHeight.num = 0 =>
         (IsFin(range.firstRow) /\ IsFin(range.lastRow))
    /\ args.avgColumnWidth.num = 0 =>
         (IsFin(range.firstColumn) /\ IsFin(range.lastColumn))

\* ------------------------------------------------------------------------
\* C17: when a change of viewport, shape or overscan is processed while
\* the grid is scrolled away from the origin and is not empty, the range is
\* resolved anew from the offset the scroll container holds and the new
\* configuration (the range a scroll event at that offset would produce):
\* it is neither the range at the origin nor the range of before the
\* change.
\* ------------------------------------------------------------------------
C17_RangeRederivedAtOffset ==
  [][ ( /\ phase = "update"
        /\ (scrollTop # 0 \/ scrollLeft # 0)
        /\ props.numRows > 0 /\ props.numColumns > 0 ) =>
        range' = onScrollRange(RangeArgs(props), scrollTop, scrollLeft) ]_vars

\* a change was processed with the grid scrolled down: the range starts
\* below row 0, where the range at the origin starts, and cells are shown
C17_Witness ==
  /\ last.op = "effects"
  /\ scrollTop > 0
  /\ props.numRows > 0 /\ props.numColumns > 0
  /\ range = onScrollRange(args, scrollTop, scrollLeft)
  /\ IsFin(range.firstRow) /\ range.firstRow.v > 0
  /\ range # initialRange(args)
  /\ Len(cells) > 0

\* ------------------------------------------------------------------------
\* C18: useValidatedProps passes a valid prop through unchanged and
\* replaces every other one by its fallback: 0 for the counts, the sizes
\* and the viewport (a finite number >= 0 is valid; for a size, a function
\* of the index as well), 1 for the overscan counts, a renderer returning
\* null for the render callback.
\* ------------------------------------------------------------------------
OrElse(x, valid, fallback) == IF valid THEN x ELSE fallback

C19_OneRecomputationPerInputChange ==
  [][ last.op = "corrected" => last'.op # "deliver" ]_vars

\* ------------------------------------------------------------------------
\* C20: the scroll corrector is a no-op when the offset is within bounds:
\* it leaves the offset as it is and writes nothing to the container (so no
\* scroll event is raised); and the offset a correction has written is one
\* that a second correction leaves alone.
\* ------------------------------------------------------------------------
C20_NoWriteInBounds ==
  [][ (phase \in {"mount", "update"} /\ due.correction /\ InBounds) =>
        /\ scrollTop' = scrollTop
        /\ scrollLeft' = scrollLeft
        /\ last'.op # "corrected"
        /\ ~scrollEventPending' ]_vars

C20_CorrectionIdempotent ==
  last.op = "corrected" =>
    correctScroll(args, scrollTop, scrollLeft)
      = [top |-> scrollTop, left |-> scrollLeft]

C20_CorrectorNoOpInBounds == C20_NoWriteInBounds /\ []C20_CorrectionIdempotent

\* the corrector has pulled the horizontal offset back to the largest valid
\* one, which is not 0, and a second correction would leave both offsets
\* where they are
C20_Witness ==
  /\ last.op = "corrected"
  /\ last.left > scrollLeft
  /\ scrollLeft > 0
  /\ InBounds
  /\ correctScroll(args, scrollTop, scrollLeft)
       = [top |-> scrollTop, left |-> scrollLeft]

\* ------------------------------------------------------------------------
\* C21: for positive average sizes, the range that onScroll and the range
\* effect resolve at the offset (top, left) is exactly
\*   firstRow = max(0, floor(top / avgRowHeight) - overscanRowCount)
\*   lastRow  = min(rowCount - 1,
\*                  floor((top + viewportHeight) / avgRowHeight)
\*                  + overscanRowCount)
\* and the same for the columns.
\* ------------------------------------------------------------------------
\* floor(x / avg) for an average num/den > 0
Floor(x, avg) == (x * avg.den) \div avg.num

ResolvedFirst(offset, avg, overscan) == Max(0, Floor(offset, avg) - overscan)

ResolvedLast(offset, viewport, avg, overscan, count) ==
  Min(count - 1, Floor(offset + viewport, avg) + overscan)

ValidOn(size, from, to) ==
  \A i \in from .. to - 1 : IsValidSize(ValueOf(size, i))

RECURSIVE SumOver(_, _, _)
SumOver(size, from, to) ==
  IF to <= from THEN 0
  ELSE SumOver(size, from, to - 1) + ValueOf(size, to - 1).v

\* the size of one index as calculateSafeSize resolves it
Resolved(size, index, fallback) ==
  IF IsValidSize(ValueOf(size, index)) THEN ValueOf(size, index).v
  ELSE fallback

RelativePosition(position, size, first, index) ==
  IF size.kind = "const" THEN position = (index - first) * size.v
  ELSE ValidOn(size, first, index) => position = SumOver(size, first, index)

C22_CellPositionedFromFirstVisible ==
  call.fn = "createCellStyle" =>
    /\ RelativePosition(result.style.top, call.rowHeight,
                        call.firstVisibleRow, call.rowIndex)
    /\ RelativePosition(result.style.left, call.columnWidth,
                        call.firstVisibleColumn, call.columnIndex)
    /\ result.style.height = Resolved(call.rowHeight, call.rowIndex, 50)
    /\ result.style.width = Resolved(call.columnWidth, call.columnIndex, 100)

\* row 2 with rows 1.. visible and heights 1, 2, 1: top is the height of
\* row 1 alone; column 1 with columns 1.. visible and width 2: left is 0
C22_Witness ==
  /\ call.fn = "createCellStyle"
  /\ call.rowHeight = Fn("alt") /\ call.columnWidth = Const(2)
  /\ call.firstVisibleRow = 1 /\ call.rowIndex = 2
  /\ call.firstVisibleColumn = 1 /\ call.columnIndex = 1
  /\ result.style = [top |-> 2, left |-> 0, height |-> 1, width |-> 2]

\* ------------------------------------------------------------------------
\* C23: calculateCumulativeSize contains the errors of a size function as
\* the single-index resolver does, with the same fallback: an index whose
\* size is invalid (or whose call throws) adds to the cumulative sum the
\* fallback size that createCellStyle gives that cell as its height (50) or
\* width (100).  So the top of a cell is the sum of the heights of the cells
\* from the first visible row up to it, and its left the sum of the widths.
\* ------------------------------------------------------------------------
RECURSIVE SumResolved(_, _, _, _)
SumResolved(size, from, to, fallback) ==
  IF to <= from THEN 0
  ELSE SumResolved(size, from, to - 1, fallback)
       + Resolved(size, to - 1, fallback)

C23_CumulativeUsesCellFallback ==
  call.fn = "createCellStyle" =>
    /\ call.rowHeight.kind = "fn" =>
         result.style.top = SumResolved(call.rowHeight, call.firstVisibleRow,
                                        call.rowIndex, 50)
    /\ call.columnWidth.kind = "fn" =>
         result.style.left = SumResolved(call.columnWidth,
                                         call.firstVisibleColumn,
                                         call.columnIndex, 100)

\* ------------------------------------------------------------------------
\* C24: a scroll event changes only the visible range (and what is rendered
\* from it): onScroll leaves totalHeight, totalWidth, avgRowHeight and
\* avgColumnWidth as they are, writes nothing to the scroll container and
\* schedules no effect; and the dimensions change only in a step that
\* changes rowCount, columnCount, rowSize or columnSize.
\* ------------------------------------------------------------------------
ShapeOf(p) == << p.numRows, p.numColumns, p.rowHeight, p.columnWidth >>

C24_ScrollChangesOnlyRange ==
  [][ /\ last'.op \in {"scroll", "deliver"} =>
           /\ dims' = dims
           /\ props' = props
           /\ phase' = phase /\ due' = due
           /\ ~scrollEventPending'
      /\ last'.op = "deliver" =>
           (scrollTop' = scrollTop /\ scrollLeft' = scrollLeft)
      /\ ShapeOf(props') = ShapeOf(props) => dims' = dims ]_vars

\* onScroll has handled the event of a correction's write at an offset that
\* is not the origin, and a user's scroll before
C24_Witness ==
  /\ last.op = "deliver"
  /\ scrollTop > 0
  /\ ~scrollEventPending
  /\ range = onScrollRange(args, scrollTop, scrollLeft)
  /\ dims.totalHeight > 0

\* ------------------------------------------------------------------------
\* C25: a scroll event handled after a configuration change computes the
\* range from the rowCount, columnCount, sizes, viewport and overscan of
\* the present configuration, never from those of the render that created
\* an earlier handler.
\* ------------------------------------------------------------------------
C25_ScrollUsesPresentConfiguration ==
  [][ last'.op \in {"scroll", "deliver"} =>
        range' = onScrollRange(RangeArgs(props'), scrollTop', scrollLeft')
    ]_vars

\* The correction effect writes only after a configuration change (at
\* mount the offset is 0): the event of its write is a scroll event handled
\* after a configuration change.  Here the range it left ends at the last
\* row of a grid of fewer than MaxRows rows, scrolled away from the origin
\* on both axes.
C25_Witness ==
  /\ last.op = "deliver"
  /\ scrollTop > 0 /\ scrollLeft > 0
  /\ props.numRows > 0 /\ props.numRows < MaxRows
  /\ range.lastRow = Fin(props.numRows - 1)
  /\ range = onScrollRange(args, scrollTop, scrollLeft)

\* ------------------------------------------------------------------------
\* C26: useNumberParameter accepts a change event iff its value consists
\* of digits only (possibly none).  An accepted value that is not empty
\* sets input and param, an accepted empty value sets input only, a
\* rejected value changes neither.  So whenever input is not empty,
\* param = Number(input).
\* ------------------------------------------------------------------------
OnlyDigits(value) ==
  \A i \in 1 .. Len(value) :
    value[i] \in {"0", "1", "2", "3", "4", "5", "6", "7", "8", "9"}

C26_ChangeAccepted ==
  [][ call'.fn = "onChangeParam" =>
        LET value == call'.value
        IN  IF OnlyDigits(value)
              THEN /\ input' = value
                   /\ param' = IF value # << >> THEN Number(value) ELSE param
              ELSE input' = input /\ param' = param ]_vars

C26_ParamIsNumberOfInput == input # << >> => param = Number(input)

C26_NumberParameter == C26_ChangeAccepted /\ []C26_ParamIsNumberOfInput

\* the field has been filled with "070": input is the text typed and param
\* the number 70
C26_Witness ==
  /\ call.fn = "onChangeParam"
  /\ call.value = << "0", "7", "0" >>
  /\ input = << "0", "7", "0" >>
  /\ param = 70

\* ------------------------------------------------------------------------
\* C27: in every render of the Virtualizer, also the one that follows a
\* configuration change before the range effect has run, every cell that
\* renderCells enumerates has 0 <= rowIndex < rowCount and
\* 0 <= columnIndex < columnCount.
\* ------------------------------------------------------------------------
C27_CellsWithinGrid ==
  \A i \in CellIndices :
    /\ 0 <= cells[i].rowIndex /\ cells[i].rowIndex < props.numRows
    /\ 0 <= cells[i].columnIndex /\ cells[i].columnIndex < props.numColumns

\* ------------------------------------------------------------------------
\* C28: the layout of the enumerated cells is contiguous along each axis:
\* for consecutive rows r and r + 1 of the range, top(r + 1) = top(r) +
\* height(r), and for consecutive columns left(c + 1) = left(c) + width(c),
\* also when the size function throws or returns an invalid value for an
\* index of the range.
\* ------------------------------------------------------------------------
C28_LayoutContiguous ==
  call.fn = "renderCells" =>
    \A i, j \in 1 .. Len(result.cells) :
      LET a == result.cells[i]
          b == result.cells[j]
      IN  /\ (b.columnIndex = a.columnIndex /\ b.rowIndex = a.rowIndex + 1) =>
               b.style.top = a.style.top + a.style.height
          /\ (b.rowIndex = a.rowIndex /\ b.columnIndex = a.columnIndex + 1) =>
               b.style.left = a.style.left + a.style.width

\* ------------------------------------------------------------------------
\* C29: for every validated configuration, zero sizes, zero counts and a
\* zero viewport included, the range that useVisibleRange holds initially,
\* before any scroll event, is the range that onScroll computes for the
\* offset (0, 0) under the same configuration.
\* ------------------------------------------------------------------------
C29_InitialRangeIsRangeAtOrigin ==
  phase = "mount" => range = onScrollRange(args, 0, 0)

\* ------------------------------------------------------------------------
\* C30: after a single scroll event or configuration change the chain of
\* updates it triggers ends in a state where nothing is pending; none of
\*   range effect -> setRange -> render,
\*   correction effect -> write of the offset -> scroll event -> onScroll
\*     -> setRange,
\*   renderCells -> onRenderEnd -> setMetrics -> render of the Dashboard,
\*   effect of the form -> onParametersChange -> setFormData
\* goes on for ever.  Every step that is not an input of the user lowers
\* the measure Pending, which is 0 exactly when nothing is pending, and as
\* long as something is pending one of these steps can be taken.
\* ------------------------------------------------------------------------
Weight(condition, weight) == IF condition THEN weight ELSE 0

Pending ==
  Weight(formEffect, 16)
  + Weight(props # VirtualizerProps(formData), 8)
  + Weight(phase # "idle", 4)
  + Weight(scrollEventPending, 2)
  + Weight(dashboardPending, 1)

\* the step is the user's: a number typed into the form, or a scroll
UserInput ==
  \/ parameters' # parameters
  \/ /\ last'.op = "scroll"
     /\ << scrollTop', scrollLeft' >> # << scrollTop, scrollLeft >>

\* an effect can run, an event can be delivered or the Dashboard can render
UpdateEnabled ==
  \/ formEffect
  \/ phase # "idle"
  \/ phase = "idle" /\ scrollEventPending
  \/ phase = "idle" /\ ~scrollEventPending /\ dashboardPending

C30_UpdatesLowerPending == [][ ~UserInput => Pending' < Pending ]_vars

C30_PendingUpdateCanRun ==
  /\ Pending > 0 => UpdateEnabled
  /\ Pending = 0 <=> PageQuiescent

C30_UpdateChainsTerminate ==
  C30_UpdatesLowerPending /\ []C30_PendingUpdateCanRun

\* A number typed into the form has shrunk the grid under the offset the
\* user had scrolled to: the form's effect, the Dashboard's render, the
\* effects of the Virtualizer with a correction of the offset, the scroll
\* event of the correction and the Dashboard's renders for the metrics have
\* all run, and nothing is pending.
C30_Witness ==
  /\ PageQuiescent
  /\ last.op = "deliver"
  /\ formData # initialData
  /\ props = VirtualizerProps(formData)
  /\ metrics.renderCount >= 4

====
